---- MODULE Spec2Model ----
(***************************************************************************)
(* Runtime values, the argument table and its extraction protocol          *)
(* (src/src/eval/value.rs), as a state machine: the state is one argument  *)
(* table, the caller's diagnostics sink, the iterator a take_all_* call    *)
(* handed out and the record of the last call.                             *)
(***************************************************************************)
EXTENDS Integers, Sequences, FiniteSets, TLC

VARIABLES table, diags, iter, ret

\* What a run that drains one table to the end keeps of its past: the table
\* the run started with and the entries handed out so far.
VARIABLES args, given

\* Formatting states (src/src/exec/state.rs): the cells of the reference
\* counted family maps, the states that are alive and the record of the
\* last operation on them.
VARIABLES heap, owners, obs

\* Template execution (src/src/library/markup.rs): the execution context,
\* the templates that are being executed, innermost last, and the record
\* of the last step.
VARIABLES ctx, todo, step

tbl == <<table, diags, iter, ret, args, given>>
sts == <<heap, owners, obs>>
exe == <<ctx, todo, step>>
fmt == <<sts, exe>>

vars == <<table, diags, iter, ret, args, given, heap, owners, obs, ctx, todo,
          step>>

\* The variables the table protocol does not touch.
aside == <<args, given, fmt>>

(***************************************************************************)
(* Bounds of the model.                                                    *)
(***************************************************************************)
\* The tables explored hold at most MaxLen entries.
MaxLen == 3
\* The sink is explored up to this many accumulated diagnostics.
MaxDiags == 1

(***************************************************************************)
(* Value (value.rs:22-64).  A value is a record of its tag and payload.    *)
(* Number payloads are f64 in the source; here fixed point, in units of    *)
(* 1/F64Den, or NaN.                                                       *)
(***************************************************************************)
F64Den == 10

F64(x) == [nan |-> FALSE, x |-> x]
NaN == [nan |-> TRUE, x |-> 0]
\* a < b and a > b on f64: false as soon as one side is NaN.
F64Lt(a, b) == ~a.nan /\ ~b.nan /\ a.x < b.x
F64Gt(a, b) == ~a.nan /\ ~b.nan /\ a.x > b.x

NoneV == [tag |-> "None", v |-> 0]
Ident(s) == [tag |-> "Ident", v |-> s]
Str(s) == [tag |-> "Str", v |-> s]
Bool(b) == [tag |-> "Bool", v |-> b]
Number(n) == [tag |-> "Number", v |-> n]
Length(l) == [tag |-> "Length", v |-> l]
Color(c) == [tag |-> "Color", v |-> c]
TableV(t) == [tag |-> "Table", v |-> t]
Tree(t) == [tag |-> "Tree", v |-> t]
Func(id) == [tag |-> "Func", v |-> id]

name(value) ==
    CASE value.tag = "None" -> "none"
      [] value.tag = "Ident" -> "identifier"
      [] value.tag = "Str" -> "string"
      [] value.tag = "Bool" -> "bool"
      [] value.tag = "Number" -> "number"
      [] value.tag = "Length" -> "length"
      [] value.tag = "Color" -> "color"
      [] value.tag = "Table" -> "table"
      [] value.tag = "Tree" -> "syntax tree"
      [] value.tag = "Func" -> "function"

(***************************************************************************)
(* Spans, options and diagnostics.                                         *)
(***************************************************************************)
Span(s, e) == [start |-> s, end |-> e]

SpanMerge(a, b) ==
    Span(IF a.start < b.start THEN a.start ELSE b.start,
         IF a.end > b.end THEN a.end ELSE b.end)

Spanned(v, span) == [v |-> v, span |-> span]

None == [some |-> FALSE]
Some(v) == [some |-> TRUE, v |-> v]

\* error!(@f, span, msg): the record pushed onto f.diagnostics.
Error(span, msg) == [span |-> span, msg |-> msg]

\* The outcome of one conversion: the Option returned and what it pushed
\* onto the Feedback it was given, in order.
Conv(res, errs) == [res |-> res, errs |-> errs]

(***************************************************************************)
(* TryFromValue (value.rs:257-447).  A converted value is the record of    *)
(* the target type and the payload.                                        *)
(***************************************************************************)
Typed(T, payload) == [ty |-> T, v |-> payload]

\* Variants of impl_match!: one that reports a mismatch and returns a value
\* all the same, one whose patterns also match Value::None.
impl_match_both(T, tyname, tags, value) ==
    IF value.v.tag \in tags
    THEN Conv(Some(Typed(T, value.v.v)), <<>>)
    ELSE Conv(Some(Typed(T, value.v.v)),
              <<Error(value.span,
                      "expected " \o tyname \o ", found " \o name(value.v))>>)

impl_match_lenient(T, tyname, tags, value) ==
    IF value.v.tag \in tags \cup {"None"}
    THEN Conv(Some(Typed(T, value.v.v)), <<>>)
    ELSE Conv(None,
              <<Error(value.span,
                      "expected " \o tyname \o ", found " \o name(value.v))>>)

\* impl_match!: the patterns are given as the set of tags they match.
impl_match(T, tyname, tags, value) ==
    IF value.v.tag \in tags
    THEN Conv(Some(Typed(T, value.v.v)), <<>>)
    ELSE Conv(None,
              <<Error(value.span,
                      "expected " \o tyname \o ", found " \o name(value.v))>>)

\* A variant of impl_ident! that returns nothing for a name it does not
\* recognize without reporting it.
impl_ident_quiet(T, tyname, parse, value) ==
    IF value.v.tag = "Ident"
    THEN IF value.v.v \in DOMAIN parse
         THEN Conv(Some(Typed(T, parse[value.v.v])), <<>>)
         ELSE Conv(None, <<>>)
    ELSE Conv(None,
              <<Error(value.span,
                      "expected " \o tyname \o ", found " \o name(value.v))>>)

\* impl_ident!: parse is the function from the recognized names to values.
impl_ident(T, tyname, parse, value) ==
    IF value.v.tag = "Ident"
    THEN IF value.v.v \in DOMAIN parse
         THEN Conv(Some(Typed(T, parse[value.v.v])), <<>>)
         ELSE Conv(None, <<Error(value.span, "invalid " \o tyname)>>)
    ELSE Conv(None,
              <<Error(value.span,
                      "expected " \o tyname \o ", found " \o name(value.v))>>)

DirFromName ==
    [s \in {"ltr", "rtl", "ttb", "btt"} |->
        CASE s = "ltr" -> "LTR" [] s = "rtl" -> "RTL"
          [] s = "ttb" -> "TTB" [] s = "btt" -> "BTT"]

SpecAlignFromName ==
    [s \in {"left", "right", "top", "bottom", "center"} |->
        CASE s = "left" -> "Left" [] s = "right" -> "Right"
          [] s = "top" -> "Top" [] s = "bottom" -> "Bottom"
          [] s = "center" -> "Center"]

\* fontdock's FontWeight::from_name: the named presets.
FontWeightFromName ==
    [s \in {"thin", "extralight", "light", "regular", "medium", "semibold",
            "bold", "extrabold", "black"} |->
        CASE s = "thin" -> 100 [] s = "extralight" -> 200
          [] s = "light" -> 300 [] s = "regular" -> 400
          [] s = "medium" -> 500 [] s = "semibold" -> 600
          [] s = "bold" -> 700 [] s = "extrabold" -> 800
          [] s = "black" -> 900]

\* `x.round() as u16` for an x the caller has found within u16: f64::round
\* is half away from zero, and the cast of NaN is 0.
F64RoundU16(a) ==
    IF a.nan THEN 0
    ELSE IF a.x >= 0
    THEN (2 * a.x + F64Den) \div (2 * F64Den)
    ELSE -((2 * (-a.x) + F64Den) \div (2 * F64Den))

FontWeightMIN == 100
FontWeightMAX == 900

\* TryFromValue for FontWeight.
FontWeightTryFromValue(value) ==
    CASE value.v.tag = "Number" ->
            LET weight == value.v.v IN
            IF F64Lt(weight, F64(FontWeightMIN * F64Den))
            THEN Conv(Some(Typed("FontWeight", FontWeightMIN)),
                      <<Error(value.span,
                              "the minimum font weight is "
                                \o ToString(FontWeightMIN))>>)
            ELSE IF F64Gt(weight, F64(FontWeightMAX * F64Den))
            THEN Conv(Some(Typed("FontWeight", FontWeightMAX)),
                      <<Error(value.span,
                              "the maximum font weight is "
                                \o ToString(FontWeightMAX))>>)
            ELSE Conv(Some(Typed("FontWeight", F64RoundU16(weight))), <<>>)
      [] value.v.tag = "Ident" ->
            IF value.v.v \in DOMAIN FontWeightFromName
            THEN Conv(Some(Typed("FontWeight", FontWeightFromName[value.v.v])),
                      <<>>)
            ELSE Conv(None, <<Error(value.span, "invalid font weight")>>)
      [] OTHER ->
            Conv(None,
                 <<Error(value.span,
                         "expected font weight (name or number), found "
                           \o name(value.v))>>)

\* fontdock's FontWidth: the named presets and the bounded constructor
\* FontWidth::new, which accepts the widths 1 to 9 only.
FontWidthFromName ==
    [s \in {"ultra-condensed", "extra-condensed", "condensed",
            "semi-condensed", "normal", "semi-expanded", "expanded",
            "extra-expanded", "ultra-expanded"} |->
        CASE s = "ultra-condensed" -> 1 [] s = "extra-condensed" -> 2
          [] s = "condensed" -> 3 [] s = "semi-condensed" -> 4
          [] s = "normal" -> 5 [] s = "semi-expanded" -> 6
          [] s = "expanded" -> 7 [] s = "extra-expanded" -> 8
          [] s = "ultra-expanded" -> 9]

FontWidthNew(width) ==
    IF 1 <= width /\ width <= 9 THEN Some(Typed("FontWidth", width)) ELSE None

FontWidthMIN == 1
FontWidthMAX == 9

\* TryFromValue for FontWidth.
FontWidthTryFromValue(value) ==
    CASE value.v.tag = "Number" ->
            LET width == value.v.v IN
            IF F64Lt(width, F64(FontWidthMIN * F64Den))
            THEN Conv(FontWidthNew(FontWidthMIN),
                      <<Error(value.span,
                              "the minimum font width is "
                                \o ToString(FontWidthMIN))>>)
            ELSE IF F64Gt(width, F64(FontWidthMAX * F64Den))
            THEN Conv(FontWidthNew(FontWidthMAX),
                      <<Error(value.span,
                              "the maximum font width is "
                                \o ToString(FontWidthMAX))>>)
            ELSE Conv(FontWidthNew(F64RoundU16(width)), <<>>)
      [] value.v.tag = "Ident" ->
            IF value.v.v \in DOMAIN FontWidthFromName
            THEN Conv(Some(Typed("FontWidth", FontWidthFromName[value.v.v])),
                      <<>>)
            ELSE Conv(None, <<Error(value.span, "invalid font width")>>)
      [] OTHER ->
            Conv(None,
                 <<Error(value.span,
                         "expected font width (name or number), found "
                           \o name(value.v))>>)

\* fontdock's FontStyle::from_name and crate::paper's Paper::from_name: the
\* names they recognize (of the papers, two).
FontStyleFromName ==
    [s \in {"normal", "italic", "oblique"} |->
        CASE s = "normal" -> "Normal" [] s = "italic" -> "Italic"
          [] s = "oblique" -> "Oblique"]

PaperFromName ==
    [s \in {"a4", "us-letter"} |->
        CASE s = "a4" -> "PAPER_A4" [] s = "us-letter" -> "PAPER_US_LETTER"]

\* T::try_from_value(value, f) for the target type T.
try_from_value(T, value) ==
    CASE T = "Value" -> Conv(Some(Typed(T, value.v)), <<>>)
      [] T = "Ident" -> impl_match(T, "identifier", {"Ident"}, value)
      [] T = "String" -> impl_match(T, "string", {"Str"}, value)
      [] T = "bool" -> impl_match(T, "bool", {"Bool"}, value)
      [] T = "f64" -> impl_match(T, "number", {"Number"}, value)
      [] T = "Length" -> impl_match(T, "length", {"Length"}, value)
      [] T = "DomTree" -> impl_match(T, "tree", {"Tree"}, value)
      [] T = "TableValue" -> impl_match(T, "table", {"Table"}, value)
      [] T = "FuncValue" -> impl_match(T, "function", {"Func"}, value)
      [] T = "ScaleLength" ->
            impl_match(T, "number or length", {"Length", "Number"}, value)
      [] T = "StringLike" ->
            impl_match(T, "identifier or string", {"Ident", "Str"}, value)
      [] T = "Dir" -> impl_ident(T, "direction", DirFromName, value)
      [] T = "SpecAlign" -> impl_ident(T, "alignment", SpecAlignFromName, value)
      [] T = "FontWeight" -> FontWeightTryFromValue(value)
      [] T = "FontStyle" -> impl_ident(T, "font style", FontStyleFromName, value)
      [] T = "Paper" -> impl_ident(T, "paper", PaperFromName, value)
      [] T = "FontWidth" -> FontWidthTryFromValue(value)

\* Spanned<T>::try_from_value(value, f): the conversion to T, with the span
\* of the value attached to what it returns.
SpannedTryFromValue(T, value) ==
    LET span == value.span
        c == try_from_value(T, value)
    IN Conv(IF c.res.some THEN Some(Spanned(c.res.v, span)) ELSE None, c.errs)

(***************************************************************************)
(* Table<SpannedEntry<Value>>.  The container itself (super::table) is     *)
(* described by the specification only: numeric keys iterate in increasing *)
(* order, string keys in insertion order.  A table is the record of        *)
(*   nums: a function from its numeric keys to entries,                    *)
(*   strs: the sequence of its string-keyed [key, entry] pairs.            *)
(* An entry is [key: span of the key, val: spanned value].                 *)
(***************************************************************************)
SpannedEntry(keyspan, val) == [key |-> keyspan, val |-> val]

RECURSIVE SortedSeq(_)
\* The elements of a finite set of integers, increasing.
SortedSeq(S) ==
    IF S = {} THEN <<>>
    ELSE LET m == CHOOSE x \in S : \A y \in S : x <= y
         IN <<m>> \o SortedSeq(S \ {m})

\* Table::nums: the (key, entry) pairs with numeric keys, increasing.
nums(t) ==
    LET ks == SortedSeq(DOMAIN t.nums)
    IN [i \in 1..Len(ks) |-> <<ks[i], t.nums[ks[i]]>>]

\* Table::strs: the (key, entry) pairs with string keys, in insertion order.
strs(t) == [i \in 1..Len(t.strs) |-> <<t.strs[i].key, t.strs[i].entry>>]

\* Table::values: every entry, the numeric ones first.
values(t) ==
    [i \in 1..Len(nums(t)) |-> nums(t)[i][2]]
        \o [i \in 1..Len(t.strs) |-> t.strs[i].entry]

\* Table::first: the numeric pair with the lowest key.
first(t) == IF DOMAIN t.nums = {} THEN None ELSE Some(nums(t)[1])

\* Table::len.
len(t) == Cardinality(DOMAIN t.nums) + Len(t.strs)

\* Table::remove with a numeric key.
remove_num(t, key) ==
    [t EXCEPT !.nums = [k \in DOMAIN t.nums \ {key} |-> t.nums[k]]]

\* Table::remove with a string key.
remove_str(t, key) ==
    [t EXCEPT !.strs = SelectSeq(t.strs, LAMBDA p : p.key # key)]

\* Table::get with a string key, as an Option.
get_str(t, key) ==
    IF \E i \in 1..Len(t.strs) : t.strs[i].key = key
    THEN Some(t.strs[CHOOSE i \in 1..Len(t.strs) : t.strs[i].key = key].entry)
    ELSE None

\* Iterator::skip.
Skip(seq, n) == IF n >= Len(seq) THEN <<>> ELSE SubSeq(seq, n + 1, Len(seq))

\* Table::into_values: every entry, in the order of values.
into_values(t) == values(t)

(***************************************************************************)
(* Spanned<Value>::flatten_tree (value.rs:66-82).  A DomTree is the        *)
(* sequence of its nodes.                                                  *)
(***************************************************************************)
RECURSIVE TreesOf(_)
\* The trees that are entries of the table themselves, joined.
TreesOf(entries) ==
    IF entries = <<>> THEN <<>>
    ELSE (IF Head(entries).val.v.tag = "Tree" THEN Head(entries).val.v.v
          ELSE <<>>) \o TreesOf(Tail(entries))

\* A variant of flatten_tree that does not look into nested tables.
flatten_tree_shallow(self) ==
    CASE self.v.tag = "Tree" -> self.v.v
      [] self.v.tag = "Table" -> TreesOf(into_values(self.v.v))
      [] OTHER -> <<>>

RECURSIVE flatten_tree(_)
RECURSIVE flatten_entries(_)
\* flat_map(|entry| entry.val.flatten_tree()).collect()
flatten_entries(entries) ==
    IF entries = <<>> THEN <<>>
    ELSE flatten_tree(Head(entries).val) \o flatten_entries(Tail(entries))

flatten_tree(self) ==
    CASE self.v.tag = "Tree" -> self.v.v
      [] self.v.tag = "Table" -> flatten_entries(into_values(self.v.v))
      [] OTHER -> <<>>

(***************************************************************************)
(* impl TableValue (value.rs:140-255).  Each operation is the function     *)
(* from the table (and the arguments) to the table afterwards, the value   *)
(* returned and the diagnostics pushed onto the caller's sink.             *)
(***************************************************************************)
Out(t, val, errs) == [table |-> t, val |-> val, errs |-> errs]

RECURSIVE take_loop(_, _, _)
\* The for loop of take over what is left of self.nums(); the conversion's
\* diagnostics go into a fresh Feedback that is dropped.
take_loop(T, t, rest) ==
    IF rest = <<>> THEN Out(t, None, <<>>)
    ELSE LET key == Head(rest)[1]
             entry == Head(rest)[2]
             c == try_from_value(T, entry.val)
         IN IF c.res.some
            THEN Out(remove_num(t, key), c.res, <<>>)
            ELSE take_loop(T, t, Tail(rest))

\* Variants of take: one that reads the entry without removing it, one
\* that leaves a none value in the slot it took from, one that hands the
\* conversions the caller's sink.
take_get(T, t) == Out(t, take_loop(T, t, nums(t)).val, <<>>)

take_replace(T, t) ==
    LET o == take_loop(T, t, nums(t))
        gone == DOMAIN t.nums \ DOMAIN o.table.nums
    IN Out([t EXCEPT !.nums = [k \in DOMAIN t.nums |->
                                 IF k \in gone
                                 THEN [t.nums[k] EXCEPT !.val.v = NoneV]
                                 ELSE t.nums[k]]],
           o.val, <<>>)

RECURSIVE take_loud_loop(_, _, _, _)
take_loud_loop(T, t, rest, errs) ==
    IF rest = <<>> THEN Out(t, None, errs)
    ELSE LET key == Head(rest)[1]
             entry == Head(rest)[2]
             c == try_from_value(T, entry.val)
         IN IF c.res.some
            THEN Out(remove_num(t, key), c.res, errs \o c.errs)
            ELSE take_loud_loop(T, t, Tail(rest), errs \o c.errs)

take_loud(T, t) == take_loud_loop(T, t, nums(t), <<>>)

take(T, t) == take_loop(T, t, nums(t))

RECURSIVE expect_loop(_, _, _, _, _)
\* The while loop of expect; errs is what it has pushed onto f so far.
expect_loop(T, argname, span, t, errs) ==
    IF first(t).some
    THEN LET num == first(t).v[1]
             entry == t.nums[num]
             c == try_from_value(T, entry.val)
         IN IF c.res.some
            THEN Out(remove_num(t, num), c.res, errs \o c.errs)
            ELSE expect_loop(T, argname, span, remove_num(t, num),
                             errs \o c.errs)
    ELSE Out(t, None, errs \o <<Error(span, "missing argument: " \o argname)>>)

\* Variants of expect: one that converts against a throwaway sink, one
\* that leaves the entries it skips in the table.
expect_quiet(T, argname, span, t) ==
    LET o == expect_loop(T, argname, span, t, <<>>)
    IN Out(o.table, o.val,
           IF o.val.some THEN <<>> ELSE <<o.errs[Len(o.errs)]>>)

expect_keep(T, argname, span, t) ==
    LET o == expect_loop(T, argname, span, t, <<>>)
        q == take_loop(T, t, nums(t))
    IN Out(q.table, o.val, o.errs)

\* A variant that gives up when the first entry does not convert.
expect_first(T, argname, span, t) ==
    LET missing == <<Error(span, "missing argument: " \o argname)>>
    IN IF first(t).some
       THEN LET num == first(t).v[1]
                c == try_from_value(T, t.nums[num].val)
            IN Out(remove_num(t, num), c.res,
                   IF c.res.some THEN c.errs ELSE c.errs \o missing)
       ELSE Out(t, None, missing)

\* A variant that reports what it found in the opposite order.
expect_backwards(T, argname, span, t) ==
    LET o == expect_loop(T, argname, span, t, <<>>)
    IN Out(o.table, o.val,
           [i \in 1..Len(o.errs) |-> o.errs[Len(o.errs) + 1 - i]])

expect(T, argname, span, t) == expect_loop(T, argname, span, t, <<>>)

\* Variants of take_key: one that diagnoses an absent key, one that puts
\* back an entry that does not convert.
take_key_required(T, key, t) ==
    LET removed == get_str(t, key)
    IN IF removed.some
       THEN LET c == try_from_value(T, removed.v.val)
            IN Out(remove_str(t, key), c.res, c.errs)
       ELSE Out(t, None, <<Error(Span(0, 1), "missing argument: " \o key)>>)

take_key_putback(T, key, t) ==
    LET removed == get_str(t, key)
    IN IF removed.some
       THEN LET c == try_from_value(T, removed.v.val)
            IN Out(IF c.res.some THEN remove_str(t, key) ELSE t, c.res, c.errs)
       ELSE Out(t, None, <<>>)

\* A variant that converts with a sink of its own, which it throws away.
take_key_silent(T, key, t) ==
    LET removed == get_str(t, key)
    IN IF removed.some
       THEN LET c == try_from_value(T, removed.v.val)
            IN Out(remove_str(t, key), c.res, <<>>)
       ELSE Out(t, None, <<>>)

take_key(T, key, t) ==
    LET removed == get_str(t, key)
    IN IF removed.some
       THEN LET c == try_from_value(T, removed.v.val)
            IN Out(remove_str(t, key), c.res, c.errs)
       ELSE Out(t, None, <<>>)

\* One call of the closure of take_all_num / take_all_str, for an iterator
\* whose cursor is skip: the outcome also holds the cursor afterwards.
Polled(t, val, skip) == [table |-> t, val |-> val, skip |-> skip]

RECURSIVE take_all_num_loop(_, _, _, _)
take_all_num_loop(T, t, rest, skip) ==
    IF rest = <<>> THEN Polled(t, None, skip)
    ELSE LET key == Head(rest)[1]
             entry == Head(rest)[2]
             c == try_from_value(T, entry.val)
         IN IF c.res.some
            THEN Polled(remove_num(t, key), Some(<<key, c.res.v>>), skip)
            ELSE take_all_num_loop(T, t, Tail(rest), skip + 1)

\* A variant whose cursor also steps over the entry it removes.
take_all_num_next_step(T, t, skip) ==
    LET p == take_all_num_loop(T, t, Skip(nums(t), skip), skip)
    IN IF p.val.some THEN Polled(p.table, p.val, p.skip + 1) ELSE p

take_all_num_next(T, t, skip) ==
    take_all_num_loop(T, t, Skip(nums(t), skip), skip)

\* take_all_num_vals: the same iterator, mapped to the value.
take_all_num_vals_next(T, t, skip) ==
    LET p == take_all_num_next(T, t, skip)
    IN IF p.val.some THEN Polled(p.table, Some(p.val.v[2]), p.skip) ELSE p

RECURSIVE take_all_str_loop(_, _, _, _)
take_all_str_loop(T, t, rest, skip) ==
    IF rest = <<>> THEN Polled(t, None, skip)
    ELSE LET key == Head(rest)[1]
             entry == Head(rest)[2]
             c == try_from_value(T, entry.val)
         IN IF c.res.some
            THEN Polled(remove_str(t, key), Some(<<key, c.res.v>>), skip)
            ELSE take_all_str_loop(T, t, Tail(rest), skip + 1)

\* A variant that does not count the entries it steps over.
take_all_str_next_recount(T, t, skip) ==
    LET p == take_all_str_loop(T, t, Skip(strs(t), skip), skip)
    IN Polled(p.table, p.val, skip)

\* A variant whose cursor also steps over the entry it removes.
take_all_str_next_step(T, t, skip) ==
    LET p == take_all_str_loop(T, t, Skip(strs(t), skip), skip)
    IN IF p.val.some THEN Polled(p.table, p.val, p.skip + 1) ELSE p

take_all_str_next(T, t, skip) ==
    take_all_str_loop(T, t, Skip(strs(t), skip), skip)

\* A variant that walks the numeric entries only.
unexpected_nums(t) ==
    [i \in 1..Len(nums(t)) |->
        Error(SpanMerge(nums(t)[i][2].key, nums(t)[i][2].val.span),
              "unexpected argument")]

unexpected(t) ==
    [i \in 1..Len(values(t)) |->
        Error(SpanMerge(values(t)[i].key, values(t)[i].val.span),
              "unexpected argument")]

(***************************************************************************)
(* The state machine: a caller holding one table and one Feedback, making  *)
(* any sequence of calls.  A take_all_* iterator borrows the table, so no  *)
(* other call is made while one is alive.                                  *)
(***************************************************************************)
\* The values, target types, string keys and argument names explored.
ArgValues == {Str("hi"), Number(F64(50 * F64Den)), Ident("ltr")}
ArgTypes == {"String", "FontWeight", "Dir"}
NumKeys == {1, 3, 7}
StrKeys == {"a", "b"}
ArgNames == {"body"}

\* The span of the call site, handed to expect.
CallSpan == Span(0, 1)

\* The entries the evaluator builds: every key and every value has a span
\* of its own.
NumEntry(k, v) ==
    SpannedEntry(Span(4 * k, 4 * k + 1), Spanned(v, Span(4 * k + 2, 4 * k + 3)))

StrSlot(key) == CASE key = "a" -> 1 [] key = "b" -> 2 [] OTHER -> 3

StrEntry(key, v) ==
    SpannedEntry(Span(1000 + 4 * StrSlot(key), 1001 + 4 * StrSlot(key)),
                 Spanned(v, Span(1002 + 4 * StrSlot(key), 1003 + 4 * StrSlot(key))))

\* The orders in which distinct string keys can have been inserted.
KeyOrders ==
    {o \in UNION {[1..n -> StrKeys] : n \in 0..Cardinality(StrKeys)} :
        \A i, j \in DOMAIN o : i # j => o[i] # o[j]}

AllTables ==
    {[nums |-> [k \in DOMAIN f |-> NumEntry(k, f[k])],
      strs |-> [i \in DOMAIN o |-> [key |-> o[i], entry |-> StrEntry(o[i], g[i])]]] :
        f \in UNION {[S -> ArgValues] : S \in SUBSET NumKeys},
        <<o, g>> \in UNION {{<<o, g>> : g \in [DOMAIN o -> ArgValues]} : o \in KeyOrders}}

Tables == {t \in AllTables : len(t) <= MaxLen}

NoIter ==
    [kind |-> "none", T |-> "", skip |-> 0, start |-> <<>>, out |-> <<>>,
     done |-> FALSE]

\* The record of the last call: the operation, its target type and key or
\* argument name, what it returned, and the table and the sink it was
\* called with.
Call(op, T, key, val) ==
    [op |-> op, T |-> T, key |-> key, val |-> val, pre |-> table,
     f0 |-> diags]

(***************************************************************************)
(* FamilyMap and FontFamily (state.rs:155-208).                            *)
(***************************************************************************)
Serif == [kind |-> "Serif", name |-> ""]
SansSerif == [kind |-> "SansSerif", name |-> ""]
Monospace == [kind |-> "Monospace", name |-> ""]
Named(s) == [kind |-> "Named", name |-> s]

FamilyMap(list, serif, sans_serif, monospace, base) ==
    [list |-> list, serif |-> serif, sans_serif |-> sans_serif,
     monospace |-> monospace, base |-> base]

\* The slice the closure of flat_map returns for one family.
Expand(map, family) ==
    CASE family.kind = "Named" -> <<family.name>>
      [] family.kind = "Serif" -> map.serif
      [] family.kind = "SansSerif" -> map.sans_serif
      [] family.kind = "Monospace" -> map.monospace

RECURSIVE flat_map(_, _)
flat_map(map, list) ==
    IF list = <<>> THEN <<>>
    ELSE Expand(map, Head(list)) \o flat_map(map, Tail(list))

\* Variants of FamilyMap::iter: one that yields a name once only, one that
\* leaves out the base list.
RECURSIVE Dedup(_)
Dedup(seq) ==
    IF seq = <<>> THEN <<>>
    ELSE LET front == Dedup(SubSeq(seq, 1, Len(seq) - 1))
             x == seq[Len(seq)]
         IN IF \E i \in DOMAIN front : front[i] = x THEN front
            ELSE Append(front, x)

FamilyMapIter_dedup(map) == Dedup(flat_map(map, map.list) \o map.base)

\* FamilyMap::iter, collected.
FamilyMapIter(map) == flat_map(map, map.list) \o map.base

(***************************************************************************)
(* State and FontState (state.rs:11-153).  The family map of a font state  *)
(* is an Rc: the state holds the address of a cell of the heap, and a cell *)
(* holds the map and its strong count.  The fields no operation of the     *)
(* model writes are kept as the names of their defaults.                   *)
(***************************************************************************)
Linear(num, den) == [num |-> num, den |-> den]

FontState(families) ==
    [families |-> families, variant |-> "Normal/REGULAR/Normal",
     size |-> 11, scale |-> Linear(1, 1), top_edge |-> "CapHeight",
     bottom_edge |-> "Baseline", strong |-> FALSE, emph |-> FALSE,
     color |-> "BLACK"]

State(families) ==
    [dirs |-> <<"TTB", "LTR">>, aligns |-> <<"Start", "Start">>,
     page |-> "PAPER_A4", par |-> "ParState::default",
     font |-> FontState(families)]

\* The states that can be alive at once, and the cells they can need.
Owners == {"state", "snapshot"}
Addrs == 1..Cardinality(Owners)

Cell(map, count) == [map |-> map, count |-> count]

\* Rc::new: the map moves into a cell that is free.
RcFree(h) == CHOOSE a \in Addrs : ~h[a].some /\ \A b \in Addrs : b < a => h[b].some

RcNew(h, map) == [h EXCEPT ![RcFree(h)] = Some(Cell(map, 1))]

\* Rc::clone and the drop of an Rc.
RcClone(h, a) == [h EXCEPT ![a] = Some(Cell(h[a].v.map, h[a].v.count + 1))]

RcDrop(h, a) ==
    [h EXCEPT ![a] = IF h[a].v.count = 1 THEN None
                     ELSE Some(Cell(h[a].v.map, h[a].v.count - 1))]

\* Rc::make_mut on the Rc at address a: the heap and the address the Rc
\* holds afterwards.  A shared cell is left to its other owners and the
\* map is cloned into a cell of its own.
RcMakeMut(h, a) ==
    IF h[a].v.count = 1 THEN [heap |-> h, addr |-> a]
    ELSE LET left == RcDrop(h, a)
         IN [heap |-> RcNew(left, h[a].v.map), addr |-> RcFree(left)]

\* A write through the &mut FamilyMap that families_mut returns: the field
\* assigned and the value it is given.
Write(field, value) == [field |-> field, value |-> value]

Written(map, write) == [map EXCEPT ![write.field] = write.value]

\* A variant of families_mut that writes through the Rc it has, shared or
\* not.
families_mut_shared(h, state, write) ==
    LET a == state.font.families
    IN [heap |-> [h EXCEPT ![a] = Some(Cell(Written(h[a].v.map, write),
                                            h[a].v.count))],
        state |-> state]

\* FontState::families_mut, and the write the caller makes through the
\* reference it returns.
families_mut(h, state, write) ==
    LET m == RcMakeMut(h, state.font.families)
        a == m.addr
    IN [heap |-> [m.heap EXCEPT ![a] = Some(Cell(Written(m.heap[a].v.map, write),
                                                 m.heap[a].v.count))],
        state |-> [state EXCEPT !.font.families = a]]

(***************************************************************************)
(* The template closures of strong, emph, heading and raw                  *)
(* (markup.rs:45-170), the first three in the parts the execution of       *)
(* their body separates.  The execution context holds the live state and   *)
(* the content built so far, here the sequence of the breaks inserted and  *)
(* the texts pushed.  A state of the execution context holds its family    *)
(* map itself, not the Rc.                                                 *)
(***************************************************************************)
DefaultFamilyMap ==
    FamilyMap(<<Serif>>, <<"eb garamond">>, <<>>, <<"inconsolata">>,
              <<"twitter color emoji">>)

\* What a closure does before it executes its body: the snapshot it keeps
\* and the state it leaves live.
Entered(snapshot, state) == [snapshot |-> snapshot, state |-> state]

\* A variant of strong that takes its snapshot after the toggle.
strong_enter_late(state) ==
    LET toggled == [state EXCEPT !.font.strong = ~@]
    IN Entered(toggled, toggled)

strong_enter(state) ==
    LET snapshot == state
    IN Entered(snapshot, [state EXCEPT !.font.strong = ~@])

\* A variant of emph that takes its snapshot after the toggle.
emph_enter_late(state) ==
    LET toggled == [state EXCEPT !.font.emph = ~@]
    IN Entered(toggled, toggled)

emph_enter(state) ==
    LET snapshot == state
    IN Entered(snapshot, [state EXCEPT !.font.emph = ~@])

\* A variant of heading that toggles strong.
heading_enter_toggle(state, level) ==
    LET snapshot == state
    IN Entered(snapshot,
               [state EXCEPT !.font.scale = Linear(@.num * (16 - level),
                                                   @.den * 10),
                             !.font.strong = ~@])

\* upscale = 1.6 - 0.1 * level, in tenths.
heading_enter(state, level) ==
    LET snapshot == state
    IN Entered(snapshot,
               [state EXCEPT !.font.scale = Linear(@.num * (16 - level),
                                                   @.den * 10),
                             !.font.strong = TRUE])

\* ctx.linebreak() and ctx.parbreak(): the break joins the content, marked
\* with the template that inserted it and, for a heading, how deeply the
\* heading was nested.
Event(kind, by, depth) == [kind |-> kind, by |-> by, depth |-> depth]

Inserted(c, kind, by, depth) ==
    [c EXCEPT !.out = Append(@, Event(kind, by, depth))]

\* ctx.set_monospace(): the monospace class becomes the first selector of
\* the family list.
set_monospace(state) ==
    [state EXCEPT !.font.families.list = <<Monospace>> \o @]

\* ctx.push_text(text): the text joins the content, set in the families
\* of the live state.
Text(text, state) ==
    [kind |-> "text", by |-> "raw", depth |-> 0, text |-> text,
     families |-> state.font.families]

push_text(c, text) == [c EXCEPT !.out = Append(@, Text(text, c.state))]

\* A variant of raw that pushes the text after the restore.
raw_exec_late(c, block, text) ==
    LET c1 == IF block THEN Inserted(c, "parbreak", "raw", 0) ELSE c
        snapshot == c1.state
        c2 == [c1 EXCEPT !.state = set_monospace(@)]
        c3 == [c2 EXCEPT !.state = snapshot]
        c4 == push_text(c3, text)
    IN IF block THEN Inserted(c4, "parbreak", "raw", 0) ELSE c4

\* The closure of raw.
raw_exec(c, block, text) ==
    LET c1 == IF block THEN Inserted(c, "parbreak", "raw", 0) ELSE c
        snapshot == c1.state
        c2 == [c1 EXCEPT !.state = set_monospace(@)]
        c3 == push_text(c2, text)
        c4 == [c3 EXCEPT !.state = snapshot]
    IN IF block THEN Inserted(c4, "parbreak", "raw", 0) ELSE c4

\* No strong and no emph without a body has been executed.
NoFlips == [strong |-> FALSE, emph |-> FALSE]

\* A template whose closure is executing its body: the snapshot the
\* closure holds, where the closure stands, the state and the length of
\* the content when the template was entered, and which of strong and emph
\* has been executed without a body an odd number of times in the body.
Frame(kind, level, snapshot, before, mark) ==
    [kind |-> kind, level |-> level, snapshot |-> snapshot, pc |-> "body",
     before |-> before, mark |-> mark, flips |-> NoFlips]

\* The record of the last step: the state before the template it belongs
\* to, the length of the content then, and whether the step restored a
\* state that differs from the one the body left.
Step(op, kind, level, before, mark, undid) ==
    [op |-> op, kind |-> kind, level |-> level, before |-> before,
     mark |-> mark, undid |-> undid]

\* The record of the step that executed a raw node.
RawStep(block, text, before, mark) ==
    [op |-> "exec", kind |-> "raw", block |-> block, text |-> text,
     before |-> before, mark |-> mark]

\* The record of the step that restored the snapshot of a template or
\* ended it: as Step, with the flips of the body that has been executed.
Left(op, frame, undid) ==
    [op |-> op, kind |-> frame.kind, level |-> frame.level,
     before |-> frame.before, mark |-> frame.mark, undid |-> undid,
     flips |-> frame.flips]

\* Nothing is executing.
ExecParked ==
    /\ ctx = [state |-> None, out |-> <<>>]
    /\ todo = <<>>
    /\ step = [op |-> "none"]

\* No formatting state is alive.
NoObs == [op |-> "none", who |-> "", out |-> <<>>, cloned |-> FALSE]

StatesParked ==
    /\ heap = [a \in Addrs |-> None]
    /\ owners = [o \in Owners |-> None]
    /\ obs = NoObs

Parked == StatesParked /\ ExecParked

\* A fresh table and an empty sink.
Fresh ==
    /\ table \in Tables
    /\ diags = <<>>
    /\ iter = NoIter
    /\ ret = [op |-> "new", T |-> "", key |-> "", val |-> None, pre |-> table,
              f0 |-> <<>>]

Init ==
    /\ Fresh
    /\ args = <<>>
    /\ given = {}
    /\ Parked

Idle == iter.kind = "none"

\* Apply the outcome of a call that was given the caller's sink.
Apply(op, T, key, out) ==
    /\ table' = out.table
    /\ diags' = diags \o out.errs
    /\ ret' = Call(op, T, key, out.val)
    /\ UNCHANGED iter

Take(T) ==
    /\ Idle
    /\ Apply("take", T, "", take(T, table))

Expect(T, argname) ==
    /\ Idle
    /\ Len(diags) < MaxDiags
    /\ Apply("expect", T, argname, expect(T, argname, CallSpan, table))

TakeKey(T, key) ==
    /\ Idle
    /\ Len(diags) < MaxDiags
    /\ Apply("take_key", T, key, take_key(T, key, table))

Unexpected ==
    /\ Idle
    /\ Len(diags) < MaxDiags
    /\ Apply("unexpected", "", "", Out(table, None, unexpected(table)))

\* take_all_num, take_all_num_vals, take_all_str: hand out the iterator.
TakeAll(kind, T) ==
    /\ Idle
    /\ iter' = [kind |-> kind, T |-> T, skip |-> 0, start |-> table,
                out |-> <<>>, done |-> FALSE]
    /\ ret' = Call(kind, T, "", None)
    /\ UNCHANGED <<table, diags>>

\* The closure of the live iterator, called once.
IterPoll ==
    CASE iter.kind = "take_all_num" ->
            take_all_num_next(iter.T, table, iter.skip)
      [] iter.kind = "take_all_num_vals" ->
            take_all_num_vals_next(iter.T, table, iter.skip)
      [] iter.kind = "take_all_str" ->
            take_all_str_next(iter.T, table, iter.skip)

\* Iterator::next on the live iterator.
IterNext ==
    /\ ~Idle
    /\ LET p == IterPoll
       IN /\ table' = p.table
          /\ iter' = [iter EXCEPT !.skip = p.skip,
                                  !.out = IF p.val.some THEN Append(@, p.val.v)
                                          ELSE @,
                                  !.done = ~p.val.some]
          /\ ret' = Call("next", iter.T, "", p.val)
    /\ UNCHANGED diags

\* The iterator is dropped, exhausted or not: the borrow of the table ends.
IterDrop ==
    /\ ~Idle
    /\ iter' = NoIter
    /\ ret' = Call("drop", iter.T, "", None)
    /\ UNCHANGED <<table, diags>>

Next ==
    \/ \E T \in ArgTypes : Take(T) /\ UNCHANGED aside
    \/ \E T \in ArgTypes, argname \in ArgNames :
          Expect(T, argname) /\ UNCHANGED aside
    \/ \E T \in ArgTypes, key \in StrKeys :
          TakeKey(T, key) /\ UNCHANGED aside
    \/ Unexpected /\ UNCHANGED aside
    \/ \E T \in ArgTypes :
          \E kind \in {"take_all_num", "take_all_num_vals", "take_all_str"} :
              TakeAll(kind, T) /\ UNCHANGED aside
    \/ IterNext /\ UNCHANGED aside
    \/ IterDrop /\ UNCHANGED aside

Spec == Init /\ [][Next]_vars

(***************************************************************************)
(* What the properties below are stated with.                              *)
(***************************************************************************)
\* The entry converts to T.
Converts(T, entry) == try_from_value(T, entry.val).res.some

\* The numeric keys of t whose entries convert to T.
NumMatches(T, t) == {k \in DOMAIN t.nums : Converts(T, t.nums[k])}

Least(S) == CHOOSE x \in S : \A y \in S : x <= y

\* What the last call pushed onto the sink.
NewDiags == SubSeq(diags, Len(ret.f0) + 1, Len(diags))

\* How many diagnostics of seq lie at the span.
CountAt(seq, span) == Cardinality({i \in DOMAIN seq : seq[i].span = span})

\* The numeric entries of t at the keys K are those of u, unchanged.
SameNums(t, u, K) ==
    /\ DOMAIN t.nums = K
    /\ \A k \in K : k \in DOMAIN u.nums /\ t.nums[k] = u.nums[k]

\* The string keys of t, as a set.
StrKeySet(t) == {t.strs[i].key : i \in DOMAIN t.strs}

(***************************************************************************)
(* C1.  take::<T>() returns the converted value of the numeric entry with  *)
(* the lowest key that converts to T and removes exactly that entry; every *)
(* other entry, the skipped ones with lower keys included, stays as it     *)
(* was; when no numeric entry converts it returns nothing and the table is *)
(* unchanged.                                                              *)
(***************************************************************************)
C1_TakeLowestMatch ==
    ret.op = "take" =>
        LET M == NumMatches(ret.T, ret.pre)
        IN IF M = {}
           THEN ~ret.val.some /\ table = ret.pre
           ELSE /\ ret.val = try_from_value(ret.T, ret.pre.nums[Least(M)].val).res
                /\ SameNums(table, ret.pre, DOMAIN ret.pre.nums \ {Least(M)})
                /\ table.strs = ret.pre.strs

\* A take returned an entry and left an entry with a lower key, which did
\* not convert, and a string-keyed entry in the table.
C1_Witness ==
    /\ ret.op = "take" /\ ret.val.some
    /\ \E k \in DOMAIN ret.pre.nums \ DOMAIN table.nums :
          \E j \in DOMAIN table.nums : j < k
    /\ Len(table.strs) > 0

(***************************************************************************)
(* C2.  expect::<T>(name, span) reports exactly one diagnostic for every   *)
(* non-matching entry it skipped and removed, at that entry's value, and   *)
(* exactly one "missing argument: name" at the caller's span when no       *)
(* numeric entry matches; it never returns a value and reports the missing *)
(* argument.                                                               *)
(***************************************************************************)
C2_Missing == Error(CallSpan, "missing argument: " \o ret.key)

C3_ExpectRemovesPrefix ==
    ret.op = "expect" =>
        LET M == NumMatches(ret.T, ret.pre)
            removed == IF M = {} THEN DOMAIN ret.pre.nums
                       ELSE {k \in DOMAIN ret.pre.nums : k <= Least(M)}
            skipped == removed \ M
            at(k) == CHOOSE i \in DOMAIN NewDiags :
                        NewDiags[i].span = ret.pre.nums[k].val.span
        IN /\ SameNums(table, ret.pre, DOMAIN ret.pre.nums \ removed)
           /\ table.strs = ret.pre.strs
           /\ \A j, k \in skipped : j < k => at(j) < at(k)

\* An expect removed a non-matching entry and the match after it, and left
\* the entry with the greater key.
C3_Witness ==
    /\ ret.op = "expect" /\ ret.val.some
    /\ DOMAIN ret.pre.nums = {1, 3, 7}
    /\ DOMAIN table.nums = {7}

(***************************************************************************)
(* C4.  After any sequence of extraction calls the table is a sub-mapping  *)
(* of what it was: no call inserts a key, re-keys or reorders an entry or  *)
(* changes the value or spans of an entry that is still present, so a key  *)
(* that was removed never reappears.  Stated of every step.                *)
(***************************************************************************)
SubTable(t, u) ==
    /\ SameNums(t, u, DOMAIN t.nums)
    /\ t.strs = SelectSeq(u.strs, LAMBDA p : p.key \in StrKeySet(t))

\* C4: every step leaves a sub-table of the table before it.
C4_OnlyRemoves == [][SubTable(table', table)]_vars

\* A call with a sink removed an entry it diagnosed, a take then removed
\* another, and an entry is still in the table.
C4_Witness ==
    /\ ret.op = "take" /\ ret.val.some
    /\ \E i \in DOMAIN ret.f0 :
          /\ ret.f0[i].span # CallSpan
          /\ ret.f0[i].msg # "unexpected argument"
    /\ len(table) > 0

(***************************************************************************)
(* C5.  take, take_all_num, take_all_num_vals and take_all_str, and every  *)
(* item drawn from their sequences, leave the caller's sink exactly as it  *)
(* was, also for target types whose conversion diagnoses clamping or an    *)
(* invalid name.                                                           *)
(***************************************************************************)
SilentOps == {"take", "take_all_num", "take_all_num_vals", "take_all_str", "next"}

\* C5: after a silent extractor the sink is what it was before the call.
C5_SilentExtractors == ret.op \in SilentOps => diags = ret.f0

\* A take to a font weight skipped an identifier that is no font weight and
\* returned a clamped number, with a diagnostic of an earlier call in the
\* sink.
C5_Witness ==
    /\ ret.op = "take" /\ ret.T = "FontWeight" /\ ret.val.some
    /\ \E j \in DOMAIN table.nums : table.nums[j].val.v.tag = "Ident"
    /\ \E k \in DOMAIN ret.pre.nums \ DOMAIN table.nums :
          /\ ret.pre.nums[k].val.v.tag = "Number"
          /\ \E j \in DOMAIN table.nums :
                j < k /\ table.nums[j].val.v.tag = "Ident"
    /\ Len(diags) > 0

(***************************************************************************)
(* C6.  take_key::<T>(name) on a table with no string-keyed entry of that  *)
(* name returns nothing, reports nothing and leaves the table, its numeric *)
(* entries included, unchanged.                                            *)
(***************************************************************************)
C6_TakeKeyAbsent ==
    (ret.op = "take_key" /\ ret.key \notin StrKeySet(ret.pre)) =>
        /\ ~ret.val.some
        /\ diags = ret.f0
        /\ table = ret.pre

\* A take_key asked for a name the table does not hold, while it holds a
\* numeric entry and an entry under another name.
C6_Witness ==
    /\ ret.op = "take_key" /\ ret.key \notin StrKeySet(ret.pre)
    /\ DOMAIN table.nums # {}
    /\ Len(table.strs) > 0

(***************************************************************************)
(* C7.  take_key::<T>(name) on a table that holds a string-keyed entry of  *)
(* that name removes that entry and only that entry, whether it converts   *)
(* or not.  As claimed: it returns the converted value with no diagnostic  *)
(* when the conversion succeeds, and nothing with exactly one "expected    *)
(* ..., found ..." diagnostic when the value has the wrong type.  That     *)
(* fails for a font weight given an out-of-range number; as amended, the   *)
(* clamping diagnostic of the conversion is the one diagnostic a           *)
(* successful take_key reports.                                            *)
(***************************************************************************)
\* The tags a target type accepts and the name its mismatch diagnostic uses.
AcceptedTags(T) ==
    CASE T = "String" -> {"Str"}
      [] T = "Dir" -> {"Ident"}
      [] T = "FontWeight" -> {"Number", "Ident"}
      [] T = "Value" -> {"None", "Ident", "Str", "Bool", "Number", "Length",
                        "Color", "Table", "Tree", "Func"}
      [] T = "Ident" -> {"Ident"}
      [] T = "bool" -> {"Bool"}
      [] T = "f64" -> {"Number"}
      [] T = "Length" -> {"Length"}
      [] T = "DomTree" -> {"Tree"}
      [] T = "TableValue" -> {"Table"}
      [] T = "FuncValue" -> {"Func"}
      [] T = "ScaleLength" -> {"Number", "Length"}
      [] T = "StringLike" -> {"Ident", "Str"}
      [] T = "SpecAlign" -> {"Ident"}
      [] T = "FontStyle" -> {"Ident"}
      [] T = "Paper" -> {"Ident"}
      [] T = "FontWidth" -> {"Number", "Ident"}

ExpectedName(T) ==
    CASE T = "String" -> "string"
      [] T = "Dir" -> "direction"
      [] T = "FontWeight" -> "font weight (name or number)"
      [] T = "Value" -> "value"
      [] T = "Ident" -> "identifier"
      [] T = "bool" -> "bool"
      [] T = "f64" -> "number"
      [] T = "Length" -> "length"
      [] T = "DomTree" -> "tree"
      [] T = "TableValue" -> "table"
      [] T = "FuncValue" -> "function"
      [] T = "ScaleLength" -> "number or length"
      [] T = "StringLike" -> "identifier or string"
      [] T = "SpecAlign" -> "alignment"
      [] T = "FontStyle" -> "font style"
      [] T = "Paper" -> "paper"
      [] T = "FontWidth" -> "font width (name or number)"

\* The entry the last take_key asked for, in the table it was called with.
C7_Entry == get_str(ret.pre, ret.key).v

C7_Present == ret.op = "take_key" /\ ret.key \in StrKeySet(ret.pre)

C7_RemovesOnlyIt ==
    /\ table.nums = ret.pre.nums
    /\ table.strs = SelectSeq(ret.pre.strs, LAMBDA p : p.key # ret.key)

C7_WrongType ==
    C7_Entry.val.v.tag \notin AcceptedTags(ret.T) =>
        /\ ~ret.val.some
        /\ NewDiags = <<Error(C7_Entry.val.span,
                              "expected " \o ExpectedName(ret.T) \o ", found "
                                \o name(C7_Entry.val.v))>>

\* The clamping diagnostic a font weight conversion of the value reports.
C7_Clamp(value) ==
    IF value.v.tag = "Number" /\ F64Lt(value.v.v, F64(100 * F64Den))
    THEN <<Error(value.span, "the minimum font weight is 100")>>
    ELSE IF value.v.tag = "Number" /\ F64Gt(value.v.v, F64(900 * F64Den))
    THEN <<Error(value.span, "the maximum font weight is 900")>>
    ELSE <<>>

\* C7 as claimed: no diagnostic at all when the conversion succeeds.
C7_TakeKeyPresent_Original ==
    C7_Present =>
        /\ C7_RemovesOnlyIt
        /\ Converts(ret.T, C7_Entry) =>
              /\ ret.val = try_from_value(ret.T, C7_Entry.val).res
              /\ NewDiags = <<>>
        /\ C7_WrongType

\* C7 as amended: when the conversion succeeds, no diagnostic but the
\* clamping diagnostic of a font weight.
C7_TakeKeyPresent ==
    C7_Present =>
        /\ C7_RemovesOnlyIt
        /\ Converts(ret.T, C7_Entry) =>
              /\ ret.val = try_from_value(ret.T, C7_Entry.val).res
              /\ NewDiags = (IF ret.T = "FontWeight"
                             THEN C7_Clamp(C7_Entry.val) ELSE <<>>)
        /\ C7_WrongType

\* A take_key to a font weight removed a number below the minimum, returned
\* the clamped weight and reported the minimum, with a numeric entry and
\* another string-keyed entry left in the table.
C7_Witness ==
    /\ C7_Present /\ ret.T = "FontWeight" /\ ret.val.some
    /\ Len(NewDiags) = 1
    /\ DOMAIN table.nums # {} /\ Len(table.strs) > 0

(***************************************************************************)
(* C8.  take_all_num::<T>() consumed to exhaustion has yielded exactly the *)
(* numeric entries that convert to T, each once, as (key, value) pairs in  *)
(* strictly increasing key order, and removed exactly those; the numeric   *)
(* entries that do not convert and the string-keyed entries are untouched. *)
(***************************************************************************)
C8_TakeAllNum ==
    (iter.kind = "take_all_num" /\ iter.done) =>
        LET M == NumMatches(iter.T, iter.start)
        IN /\ Len(iter.out) = Cardinality(M)
           /\ \A i \in DOMAIN iter.out :
                /\ iter.out[i][1] \in M
                /\ Some(iter.out[i][2]) =
                     try_from_value(iter.T, iter.start.nums[iter.out[i][1]].val).res
           /\ \A i, j \in DOMAIN iter.out :
                i < j => iter.out[i][1] < iter.out[j][1]
           /\ SameNums(table, iter.start, DOMAIN iter.start.nums \ M)
           /\ table.strs = iter.start.strs

\* The sequence yielded the entries at keys 1 and 7 and left the one at
\* key 3, which does not convert.
C8_Witness ==
    /\ iter.kind = "take_all_num" /\ iter.done
    /\ DOMAIN iter.start.nums = {1, 3, 7}
    /\ Len(iter.out) = 2
    /\ DOMAIN table.nums = {3}

C10_Entries(t) ==
    {t.nums[k] : k \in DOMAIN t.nums} \cup {t.strs[i].entry : i \in DOMAIN t.strs}

\* C10: one "unexpected argument" per entry, from its key to its value,
\* and the table unchanged.
C10_Unexpected ==
    ret.op = "unexpected" =>
        /\ table = ret.pre
        /\ ret.f0 = SubSeq(diags, 1, Len(ret.f0))
        /\ Len(NewDiags) = len(ret.pre)
        /\ \A i \in DOMAIN NewDiags : NewDiags[i].msg = "unexpected argument"
        /\ \A e \in C10_Entries(ret.pre) :
              CountAt(NewDiags, Span(e.key.start, e.val.span.end)) = 1

\* unexpected() ran on a table of numeric and string-keyed entries.
C10_Witness ==
    /\ ret.op = "unexpected"
    /\ DOMAIN table.nums # {} /\ Len(table.strs) > 0
    /\ Len(NewDiags) = 3

(***************************************************************************)
(* Draining one table: a function's body extracts what it knows from its   *)
(* argument table with take, expect and take_key and ends with             *)
(* unexpected().  The run keeps the table it started with and the entries  *)
(* it handed out; the sink is explored up to DrainDiags accumulated        *)
(* diagnostics.                                                            *)
(***************************************************************************)
DrainDiags == MaxDiags + 1

\* The entries of t that are gone from u and whose conversion is the value
\* the extractor returned.
Handed(t, u, T, val) ==
    {e \in C10_Entries(t) \ C10_Entries(u) :
        /\ val.some
        /\ LET c == try_from_value(T, e.val).res
           IN c.some /\ val.v = c.v}

\* The record of the last call of the run: the operation, the argument
\* name and the sink it was called with.
DrainCall(op, key) ==
    [op |-> op, T |-> "", key |-> key, val |-> None, pre |-> <<>>,
     f0 |-> diags]

DrainInit ==
    /\ Fresh
    /\ args = table
    /\ given = {}
    /\ Parked

\* The body has not reached its closing unexpected() yet.
Draining == ret.op # "unexpected"

DrainApply(op, T, key, out) ==
    /\ table' = out.table
    /\ diags' = diags \o out.errs
    /\ ret' = DrainCall(op, key)
    /\ given' = given \cup Handed(table, out.table, T, out.val)
    /\ UNCHANGED <<iter, args, fmt>>

DrainTake(T) ==
    /\ Draining /\ Idle
    /\ DrainApply("take", T, "", take(T, table))

DrainExpect(T, argname) ==
    /\ Draining /\ Idle
    /\ Len(diags) < DrainDiags
    /\ DrainApply("expect", T, argname, expect(T, argname, CallSpan, table))

DrainTakeKey(T, key) ==
    /\ Draining /\ Idle
    /\ Len(diags) < DrainDiags
    /\ DrainApply("take_key", T, key, take_key(T, key, table))

\* The closing call of the body.
DrainUnexpected ==
    /\ Draining /\ Idle
    /\ DrainApply("unexpected", "", "", Out(table, None, unexpected(table)))

DrainNext ==
    \/ \E T \in ArgTypes : DrainTake(T)
    \/ \E T \in ArgTypes, argname \in ArgNames : DrainExpect(T, argname)
    \/ \E T \in ArgTypes, key \in StrKeys : DrainTakeKey(T, key)
    \/ DrainUnexpected

SpecDrain == DrainInit /\ [][DrainNext]_vars

(***************************************************************************)
(* C11.  No argument is silently dropped: when a run of extraction calls   *)
(* on a table has ended with unexpected(), every entry of the table the    *)
(* run started with was handed out as a converted value by an extractor,   *)
(* or was removed and has a diagnostic at its value in the sink, or is     *)
(* still in the table and has an "unexpected argument" diagnostic from its *)
(* key to its value.                                                       *)
(***************************************************************************)
C11_Mismatch(e) ==
    \E i \in DOMAIN diags :
        diags[i].span = e.val.span /\ diags[i].msg # "unexpected argument"

C11_Leftover(e) ==
    \E i \in DOMAIN diags :
        diags[i] = Error(Span(e.key.start, e.val.span.end),
                         "unexpected argument")

C20_KeyAt(span) ==
    CHOOSE k \in DOMAIN args.nums : args.nums[k].val.span = span

C20_IsMissing(d) == d = Error(CallSpan, "missing argument: " \o ret.key)

\* C20: the sink before the call is a prefix of the sink after it, and an
\* expect reports in key order, the missing argument last.
C20_AppendOnly ==
    /\ ret.f0 = SubSeq(diags, 1, Len(ret.f0))
    /\ ret.op = "expect" =>
          \A i, j \in DOMAIN NewDiags :
              i < j =>
                 /\ ~C20_IsMissing(NewDiags[i])
                 /\ ~C20_IsMissing(NewDiags[j]) =>
                       C20_KeyAt(NewDiags[i].span) < C20_KeyAt(NewDiags[j].span)

\* After a call that left a diagnostic, an expect removed two entries that
\* do not convert and reported them and the missing argument.
C20_Witness ==
    /\ ret.op = "expect"
    /\ Len(ret.f0) > 0
    /\ Len(NewDiags) = 3
    /\ C20_IsMissing(NewDiags[3])

(***************************************************************************)
(* Conversions on their own: T::try_from_value and                         *)
(* Spanned<T>::try_from_value called on one spanned value with the         *)
(* caller's sink, for every target type and values of every tag.  The      *)
(* record of the last call holds the value converted (pre) and whether the *)
(* target was Spanned<T>.                                                  *)
(***************************************************************************)
ConvTypes ==
    {"Value", "Ident", "String", "bool", "f64", "Length", "DomTree",
     "TableValue", "FuncValue", "ScaleLength", "StringLike", "Dir",
     "SpecAlign", "FontStyle", "Paper", "FontWeight", "FontWidth"}

\* n + tenths/10 as an f64.
Dec(n, tenths) == F64(n * F64Den + (tenths * F64Den) \div 10)

ConvNumbers ==
    {Dec(-3, 0), Dec(0, 4), Dec(1, 0), Dec(5, 5), Dec(9, 0), Dec(9, 4),
     Dec(50, 0), Dec(100, 0), Dec(400, 4), Dec(899, 6), Dec(900, 0),
     Dec(1000, 0), NaN}

ConvNames ==
    {"ltr", "LTR", "center", "bold", "italic", "a4", "condensed", "normal",
     "wide"}

ConvValues ==
    {NoneV, Str("ltr"), Bool(TRUE), Length(12), Color(255), TableV(<<>>),
     Tree(<<>>), Func(1)}
      \cup {Ident(s) : s \in ConvNames}
      \cup {Number(n) : n \in ConvNumbers}

ConvSpans == {Span(2, 5), Span(7, 9)}

EmptyTable == [nums |-> <<>>, strs |-> <<>>]

ConvCall(T, wrapped, value, res) ==
    [op |-> "try_from_value", T |-> T, key |-> "", val |-> res,
     pre |-> value, f0 |-> diags, wrapped |-> wrapped]

\* What the sink handed to a conversion can hold from before.
ConvSinks == {<<>>, <<Error(CallSpan, "missing argument: body")>>}

ConvInit ==
    /\ table = EmptyTable
    /\ diags \in ConvSinks
    /\ iter = NoIter
    /\ ret = [op |-> "new", T |-> "", key |-> "", val |-> None,
              pre |-> table, f0 |-> diags]
    /\ args = <<>>
    /\ given = {}
    /\ Parked

\* The outcome of a conversion reaches the caller and its sink.
Converted(T, wrapped, value, c) ==
    /\ diags' = diags \o c.errs
    /\ ret' = ConvCall(T, wrapped, value, c.res)
    /\ UNCHANGED <<table, iter, args, given, fmt>>

\* Conversions are explored until one of them reports.
TryFromValue(T, value) ==
    /\ diags \in ConvSinks
    /\ Converted(T, FALSE, value, try_from_value(T, value))

SpannedTryFrom(T, value) ==
    /\ diags \in ConvSinks
    /\ Converted(T, TRUE, value, SpannedTryFromValue(T, value))

ConvNext ==
    \/ \E T \in ConvTypes, v \in ConvValues, span \in ConvSpans :
          TryFromValue(T, Spanned(v, span))
    \/ \E T \in ConvTypes, v \in ConvValues, span \in ConvSpans :
          SpannedTryFrom(T, Spanned(v, span))

SpecConv == ConvInit /\ [][ConvNext]_vars

\* The last call was a conversion; what it returned, without the span a
\* Spanned<T> target attaches.
IsConv == ret.op = "try_from_value"

ConvResult == IF ret.wrapped THEN ret.val.v.v ELSE ret.val.v

\* The mismatch diagnostic of the last conversion.
ConvMismatch ==
    <<Error(ret.pre.span,
            "expected " \o ExpectedName(ret.T) \o ", found "
              \o name(ret.pre.v))>>

(***************************************************************************)
(* C12.  A tag-matching conversion (identity, identifier, string, bool,    *)
(* number, length, tree, table, function, number or length, identifier or  *)
(* string, and Spanned<T> of any of them) of a value whose tag it does not *)
(* match returns nothing and reports exactly "expected <expected-name>,    *)
(* found <actual-name>" at the value's span; of a value whose tag it       *)
(* matches it returns a value; and whenever it returns a value it reports  *)
(* nothing.  Spanned<T> returns the value with the span of the input.      *)
(***************************************************************************)
C12_MatchTypes ==
    {"Value", "Ident", "String", "bool", "f64", "Length", "DomTree",
     "TableValue", "FuncValue", "ScaleLength", "StringLike"}

\* C12: one mismatch diagnostic and no value, or a value and no
\* diagnostic.
C12_TagMatching ==
    (IsConv /\ ret.T \in C12_MatchTypes) =>
        /\ ret.f0 = SubSeq(diags, 1, Len(ret.f0))
        /\ ret.pre.v.tag \notin AcceptedTags(ret.T) =>
              ~ret.val.some /\ NewDiags = ConvMismatch
        /\ ret.pre.v.tag \in AcceptedTags(ret.T) => ret.val.some
        /\ ret.val.some => NewDiags = <<>>
        /\ (ret.val.some /\ ret.wrapped) => ret.val.v.span = ret.pre.span

\* A conversion to Spanned<ScaleLength> of a string reported the mismatch
\* into a sink that held a diagnostic already.
C12_Witness ==
    /\ IsConv /\ ret.wrapped /\ ret.T = "ScaleLength"
    /\ ret.pre.v.tag = "Str"
    /\ Len(ret.f0) = 1 /\ Len(NewDiags) = 1

(***************************************************************************)
(* C13.  As claimed, each of the instances identity, identifier, string,   *)
(* bool, number, length, tree, table and function matches exactly one tag: *)
(* two values that convert to the same instance carry the same tag.  That  *)
(* fails for the identity instance, whose pattern matches every value.  As *)
(* amended: the identity instance returns the value itself for every tag,  *)
(* and each of the other eight returns a value exactly for the one tag it  *)
(* names.                                                                  *)
(***************************************************************************)
C13_Instances ==
    {"Value", "Ident", "String", "bool", "f64", "Length", "DomTree",
     "TableValue", "FuncValue"}

\* C13 as claimed: no instance converts values of two different tags.
C13_OneTagEach_Original ==
    [][(/\ IsConv /\ IsConv'
        /\ ret.T \in C13_Instances /\ ret'.T = ret.T
        /\ ret.val.some /\ ret'.val.some)
          => ret'.pre.v.tag = ret.pre.v.tag]_vars

\* C13 as amended: identity takes every tag, the other eight exactly one.
C13_OneTagEach ==
    (IsConv /\ ret.T \in C13_Instances) =>
        IF ret.T = "Value"
        THEN ret.val.some /\ ConvResult = Typed("Value", ret.pre.v)
        ELSE /\ Cardinality(AcceptedTags(ret.T)) = 1
             /\ ret.val.some <=> ret.pre.v.tag \in AcceptedTags(ret.T)
             /\ ret.val.some => ConvResult = Typed(ret.T, ret.pre.v.v)

\* The identity instance returned a color, which no other instance takes.
C13_Witness ==
    /\ IsConv /\ ret.T = "Value" /\ ~ret.wrapped
    /\ ret.pre.v.tag = "Color"
    /\ ret.val.some

(***************************************************************************)
(* C14.  The conversion of a number to a font weight or a font width       *)
(* returns a value within the closed range ([100,900], [1,9]): the minimum *)
(* with exactly one "the minimum <kind> is <bound>" for a number below it, *)
(* the maximum with exactly one "the maximum <kind> is <bound>" for a      *)
(* number above it, and the number rounded to the nearest integer, with no *)
(* diagnostic, for any other number.                                       *)
(***************************************************************************)
C14_Kind == IF ret.T = "FontWeight" THEN "font weight" ELSE "font width"
C14_Min == IF ret.T = "FontWeight" THEN 100 ELSE 1
C14_Max == IF ret.T = "FontWeight" THEN 900 ELSE 9

\* v is x rounded to the nearest integer.
C14_Rounded(x, v) ==
    /\ ~x.nan
    /\ 2 * (x.x - v * F64Den) <= F64Den
    /\ 2 * (v * F64Den - x.x) <= F64Den

\* C14: a number converts to a value within the range, clamped with one
\* diagnostic or rounded with none.
C14_BoundedFont ==
    (IsConv /\ ret.T \in {"FontWeight", "FontWidth"}
            /\ ret.pre.v.tag = "Number") =>
        LET x == ret.pre.v.v
            below == F64Lt(x, F64(C14_Min * F64Den))
            above == F64Gt(x, F64(C14_Max * F64Den))
        IN /\ ret.val.some
           /\ ConvResult.v \in C14_Min..C14_Max
           /\ below =>
                /\ ConvResult.v = C14_Min
                /\ NewDiags = <<Error(ret.pre.span,
                                      "the minimum " \o C14_Kind \o " is "
                                        \o ToString(C14_Min))>>
           /\ above =>
                /\ ConvResult.v = C14_Max
                /\ NewDiags = <<Error(ret.pre.span,
                                      "the maximum " \o C14_Kind \o " is "
                                        \o ToString(C14_Max))>>
           /\ (~below /\ ~above) =>
                /\ C14_Rounded(x, ConvResult.v)
                /\ NewDiags = <<>>

(***************************************************************************)
(* C15.  A conversion that parses an identifier (direction, alignment,     *)
(* font style, paper, and font weight and font width given anything but a  *)
(* number) has exactly one of three outcomes: for an identifier with a     *)
(* recognized name, the value and no diagnostic; for an identifier with    *)
(* any other name, upper-case variants included, nothing and exactly one   *)
(* "invalid <kind>" at its span; for a value of any other tag, nothing and *)
(* exactly one "expected <kind>, found <tag>" ("expected <kind> (name or   *)
(* number), found <tag>" for weight and width).                            *)
(***************************************************************************)
C15_IdentTypes ==
    {"Dir", "SpecAlign", "FontStyle", "Paper", "FontWeight", "FontWidth"}

C15_Kind(T) ==
    CASE T = "Dir" -> "direction"
      [] T = "SpecAlign" -> "alignment"
      [] T = "FontStyle" -> "font style"
      [] T = "Paper" -> "paper"
      [] T = "FontWeight" -> "font weight"
      [] T = "FontWidth" -> "font width"

C15_Names(T) ==
    CASE T = "Dir" -> {"ltr", "rtl", "ttb", "btt"}
      [] T = "SpecAlign" -> {"left", "right", "top", "bottom", "center"}
      [] T = "FontStyle" -> DOMAIN FontStyleFromName
      [] T = "Paper" -> DOMAIN PaperFromName
      [] T = "FontWeight" -> DOMAIN FontWeightFromName
      [] T = "FontWidth" -> DOMAIN FontWidthFromName

\* C15: value and no diagnostic, or "invalid", or "expected ... found".
C15_IdentParsed ==
    (IsConv /\ ret.T \in C15_IdentTypes /\ ret.pre.v.tag # "Number") =>
        LET isIdent == ret.pre.v.tag = "Ident"
            known == isIdent /\ ret.pre.v.v \in C15_Names(ret.T)
            value == ret.val.some /\ NewDiags = <<>>
            invalid ==
                /\ ~ret.val.some
                /\ NewDiags = <<Error(ret.pre.span,
                                      "invalid " \o C15_Kind(ret.T))>>
            mismatch ==
                /\ ~ret.val.some
                /\ NewDiags =
                     <<Error(ret.pre.span,
                             "expected " \o C15_Kind(ret.T)
                               \o (IF ret.T \in {"FontWeight", "FontWidth"}
                                   THEN " (name or number)" ELSE "")
                               \o ", found " \o name(ret.pre.v))>>
        IN /\ known => value
           /\ (isIdent /\ ~known) => invalid
           /\ ~isIdent => mismatch
           /\ value \/ invalid \/ mismatch

\* The identifier LTR, which is not the name ltr, did not convert to a
\* direction and was reported as invalid.
C15_Witness ==
    /\ IsConv /\ ret.T = "Dir"
    /\ ret.pre.v = Ident("LTR")
    /\ ~ret.val.some
    /\ NewDiags = <<Error(ret.pre.span, "invalid direction")>>

(***************************************************************************)
(* Formatting states on their own: states are cloned, assigned, dropped    *)
(* and written, and their family maps are written through families_mut and *)
(* iterated.  The run starts with one state whose family map is any of     *)
(* FamilyMaps.                                                             *)
(***************************************************************************)
\* The family lists explored hold at most MaxList selectors.
MaxList == 2

Families == {Serif, SansSerif, Monospace, Named("x")}

FamilyLists == UNION {[1..n -> Families] : n \in 0..MaxList}

FamilyMaps ==
    {FamilyMap(list, <<"x", "s">>, sans_serif, <<"m">>, <<"z">>) :
        list \in FamilyLists, sans_serif \in {<<>>, <<"a", "b">>}}

\* The writes explored: to the list of selectors, and to the lists of names.
ListWrites == {Write("list", <<Monospace>>)}
NameWrites == {Write("base", <<>>), Write("sans_serif", <<"b">>)}

TableParked ==
    /\ table = EmptyTable
    /\ diags = <<>>
    /\ iter = NoIter
    /\ ret = [op |-> "new", T |-> "", key |-> "", val |-> None,
              pre |-> table, f0 |-> <<>>]
    /\ args = <<>>
    /\ given = {}

Obs(op, who, out, cloned) ==
    [op |-> op, who |-> who, out |-> out, cloned |-> cloned]

StateInit ==
    /\ TableParked
    /\ ExecParked
    /\ \E map \in FamilyMaps :
          heap = RcNew([a \in Addrs |-> None], map)
    /\ owners = [o \in Owners |-> IF o = "state" THEN Some(State(1)) ELSE None]
    /\ obs = Obs("new", "state", <<>>, FALSE)

\* The family map a state reads.
Families_of(o) == heap[owners[o].v.font.families].v.map

\* let dst = src.clone(): the derived Clone of State and FontState, which
\* clones the Rc.
StateClone(src, dst) ==
    /\ owners[src].some /\ ~owners[dst].some
    /\ owners' = [owners EXCEPT ![dst] = owners[src]]
    /\ heap' = RcClone(heap, owners[src].v.font.families)
    /\ obs' = Obs("clone", dst, <<>>, FALSE)
    /\ UNCHANGED <<tbl, exe>>

\* dst = src: the value of dst is dropped and src moves into it.
StateAssign(dst, src) ==
    /\ owners[src].some /\ owners[dst].some /\ src # dst
    /\ owners' = [owners EXCEPT ![dst] = owners[src], ![src] = None]
    /\ heap' = RcDrop(heap, owners[dst].v.font.families)
    /\ obs' = Obs("assign", dst, <<>>, FALSE)
    /\ UNCHANGED <<tbl, exe>>

\* The state goes out of scope.
StateDrop(o) ==
    /\ owners[o].some
    /\ owners' = [owners EXCEPT ![o] = None]
    /\ heap' = RcDrop(heap, owners[o].v.font.families)
    /\ obs' = Obs("drop", o, <<>>, FALSE)
    /\ UNCHANGED <<tbl, exe>>

\* o.font.families_mut().field = value
FamiliesMut(o, write) ==
    /\ owners[o].some
    /\ LET m == families_mut(heap, owners[o].v, write)
       IN /\ heap' = m.heap
          /\ owners' = [owners EXCEPT ![o] = Some(m.state)]
    /\ obs' = Obs("families_mut", o, <<>>,
                  heap[owners[o].v.font.families].v.count > 1)
    /\ UNCHANGED <<tbl, exe>>

\* o.font.strong ^= true
ToggleStrong(o) ==
    /\ owners[o].some
    /\ owners' = [owners EXCEPT ![o] =
                     Some([@.v EXCEPT !.font.strong = ~@])]
    /\ obs' = Obs("strong", o, <<>>, FALSE)
    /\ UNCHANGED <<heap, tbl, exe>>

\* o.font.families.iter().collect()
FamiliesIter(o) ==
    /\ owners[o].some
    /\ obs' = Obs("iter", o, FamilyMapIter(Families_of(o)), FALSE)
    /\ UNCHANGED <<heap, owners, tbl, exe>>

StateNext ==
    \/ \E src, dst \in Owners : StateClone(src, dst)
    \/ \E src, dst \in Owners : StateAssign(dst, src)
    \/ \E o \in Owners : StateDrop(o)
    \/ \E o \in Owners, write \in ListWrites : FamiliesMut(o, write)
    \/ \E o \in Owners, write \in NameWrites : FamiliesMut(o, write)
    \/ \E o \in Owners : ToggleStrong(o)
    \/ \E o \in Owners : FamiliesIter(o)

SpecState == StateInit /\ [][StateNext]_vars

(***************************************************************************)
(* C18.  FamilyMap::iter yields the expansions of the selectors of the     *)
(* list, in list order, followed by the base list: a named selector        *)
(* expands to its name, a generic class to its backing list in stored      *)
(* order, nothing when that list is empty; a name that occurs twice is     *)
(* yielded twice; and the iteration leaves the map as it was, so that      *)
(* iterating again yields the same.                                        *)
(***************************************************************************)
C18_Selector(map, family) ==
    IF family.kind = "Named" THEN <<family.name>>
    ELSE IF family.kind = "Serif" THEN map.serif
    ELSE IF family.kind = "SansSerif" THEN map.sans_serif
    ELSE map.monospace

\* The expansions of the first n selectors, concatenated.
RECURSIVE C18_Upto(_, _)
C18_Upto(map, n) ==
    IF n = 0 THEN <<>>
    ELSE C18_Upto(map, n - 1) \o C18_Selector(map, map.list[n])

\* C18: what an iteration yielded is the concatenation of the expansions
\* and the base list, for the map the state still reads.
C18_IterOrder ==
    obs.op = "iter" =>
        LET map == Families_of(obs.who)
        IN /\ obs.out = C18_Upto(map, Len(map.list)) \o map.base
           /\ map.list = <<>> => obs.out = map.base

\* The family map of Scenario D was iterated.
C18_Witness ==
    /\ obs.op = "iter"
    /\ Families_of(obs.who).list = <<Named("x"), SansSerif>>
    /\ Families_of(obs.who).sans_serif = <<"a", "b">>
    /\ Families_of(obs.who).base = <<"z">>
    /\ obs.out = <<"x", "a", "b", "z">>

(***************************************************************************)
(* C19.  States are independent: whatever one step does to one state -- a  *)
(* clone into it, an assignment to it, a write through families_mut or to  *)
(* the strong flag -- every other state that is alive before and after the *)
(* step reads the same family map and the same fields as before, also when *)
(* the two shared one family map.                                          *)
(***************************************************************************)
\* What a state reads: its fields, with the family map in place of the Rc.
C19_View(o) == [owners[o].v EXCEPT !.font.families = Families_of(o)]

\* C19: a step changes what its own state reads, and no other.
C19_Independent ==
    [][\A o \in Owners :
          (owners[o].some /\ owners'[o].some /\ o # obs'.who)
              => C19_View(o)' = C19_View(o)]_vars

\* A state wrote through families_mut while it shared its family map; the
\* other state is alive and reads another map than the writer.
C19_Witness ==
    /\ obs.op = "families_mut" /\ obs.cloned
    /\ \E o \in Owners \ {obs.who} :
          owners[o].some /\ Families_of(o) # Families_of(obs.who)

(***************************************************************************)
(* Executing templates: the nodes of a template are executed one after the *)
(* other against the execution context; a strong, emph or heading node     *)
(* with a body executes the body in between the two parts of its closure.  *)
(* The template is not fixed in advance: every step chooses the next node, *)
(* so that the runs cover every template, with bodies of any length, in   *)
(* which the templates that are open and the items of the content, those   *)
(* that the open headings have still to insert included, never number      *)
(* more than MaxSize.                                                      *)
(***************************************************************************)
MaxSize == 3

Levels == {1, 3, 6}

Texts == {"", "fn"}

ExecInit ==
    /\ TableParked
    /\ StatesParked
    /\ LET state == State(DefaultFamilyMap)
       IN /\ ctx = [state |-> state, out |-> <<>>]
          /\ todo = <<Frame("root", 0, state, state, 0)>>
    /\ step = [op |-> "none"]

Top == todo[Len(todo)]

\* A body is executing: its next node can be executed.
Room == Top.pc = "body"

\* The breaks that the headings being executed have still to insert.
Owed == Cardinality({i \in DOMAIN todo : todo[i].kind = "heading"})

\* The open templates and the items the content holds or is owed.
Size == (Len(todo) - 1) + Len(ctx.out) + Owed

\* A strong or emph node without a body: the closure runs to its end.
ExecToggle(kind) ==
    /\ Room
    /\ LET e == IF kind = "strong" THEN strong_enter(ctx.state)
                ELSE emph_enter(ctx.state)
       IN ctx' = [ctx EXCEPT !.state = e.state]
    /\ todo' = [todo EXCEPT ![Len(todo)].flips[kind] = ~@]
    /\ step' = Step("exec", kind, 0, ctx.state, Len(ctx.out), FALSE)
    /\ UNCHANGED <<tbl, sts>>

\* A linebreak or parbreak node.
ExecBreak(kind) ==
    /\ Room
    /\ Size < MaxSize
    /\ ctx' = Inserted(ctx, kind, kind, 0)
    /\ UNCHANGED todo
    /\ step' = Step("exec", kind, 0, ctx.state, Len(ctx.out), FALSE)
    /\ UNCHANGED <<tbl, sts>>

\* A strong, emph or heading node with a body: the closure runs up to
\* body.exec(ctx).
Enter(kind, level) ==
    /\ Room
    /\ Size + (IF kind = "heading" THEN 2 ELSE 1) <= MaxSize
    /\ LET e == CASE kind = "strong" -> strong_enter(ctx.state)
                  [] kind = "emph" -> emph_enter(ctx.state)
                  [] kind = "heading" -> heading_enter(ctx.state, level)
       IN /\ ctx' = [ctx EXCEPT !.state = e.state]
          /\ todo' = Append(todo, Frame(kind, level, e.snapshot, ctx.state,
                                        Len(ctx.out)))
    /\ step' = Step("enter", kind, level, ctx.state, Len(ctx.out), FALSE)
    /\ UNCHANGED <<tbl, sts>>

\* body.exec(ctx) has returned: ctx.state = snapshot.  The closures of
\* strong and emph end here.
BodyDone ==
    /\ Len(todo) > 1 /\ Top.pc = "body"
    /\ ctx' = [ctx EXCEPT !.state = Top.snapshot]
    /\ IF Top.kind = "heading"
       THEN /\ todo' = [todo EXCEPT ![Len(todo)].pc = "parbreak"]
            /\ step' = Left("restore", Top, ctx.state # Top.snapshot)
       ELSE /\ todo' = SubSeq(todo, 1, Len(todo) - 1)
            /\ step' = Left("leave", Top, ctx.state # Top.snapshot)
    /\ UNCHANGED <<tbl, sts>>

\* The last statement of the closure of heading: ctx.parbreak().
HeadingParbreak ==
    /\ Len(todo) > 1 /\ Top.pc = "parbreak"
    /\ ctx' = Inserted(ctx, "parbreak", "heading", Len(todo))
    /\ todo' = SubSeq(todo, 1, Len(todo) - 1)
    /\ step' = Left("leave", Top, FALSE)
    /\ UNCHANGED <<tbl, sts>>

\* A raw node: the closure runs to its end.
Raw(block, text) ==
    /\ Room
    /\ Size + (IF block THEN 3 ELSE 1) <= MaxSize
    /\ ctx' = raw_exec(ctx, block, text)
    /\ UNCHANGED todo
    /\ step' = RawStep(block, text, ctx.state, Len(ctx.out))
    /\ UNCHANGED <<tbl, sts>>

ExecNext ==
    \/ \E kind \in {"strong", "emph"} : ExecToggle(kind)
    \/ \E kind \in {"linebreak", "parbreak"} : ExecBreak(kind)
    \/ \E block \in BOOLEAN, text \in Texts : Raw(block, text)
    \/ \E kind \in {"strong", "emph"} : Enter(kind, 0)
    \/ \E level \in Levels : Enter("heading", level)
    \/ BodyDone
    \/ HeadingParbreak

SpecExec == ExecInit /\ [][ExecNext]_vars

(***************************************************************************)
(* C16: a strong or emph template with a body leaves the state after its   *)
(* execution equal, in every field, to the state before it, whatever the   *)
(* body did; its body is executed against the state before it with the     *)
(* flag of the template negated; and a strong or emph template without a   *)
(* body leaves that flag negated and every other field as it was.          *)
(***************************************************************************)
C16_Flipped(state, kind) ==
    [state EXCEPT !.font.strong = IF kind = "strong" THEN ~@ ELSE @,
                  !.font.emph = IF kind = "emph" THEN ~@ ELSE @]

C16_FrameEffect ==
    (step.op \in {"exec", "enter", "leave"}
        /\ step.kind \in {"strong", "emph"}) =>
        /\ step.op = "leave" => ctx.state = step.before
        /\ step.op = "enter" =>
              ctx.state = C16_Flipped(step.before, step.kind)
        /\ step.op = "exec" =>
              ctx.state = C16_Flipped(step.before, step.kind)

\* A strong template has ended whose body inserted a break and left a
\* state other than the one the template restored.
C16_Witness ==
    /\ step.op = "leave" /\ step.kind = "strong"
    /\ step.undid
    /\ Len(ctx.out) > step.mark
    /\ ctx.state = step.before

(***************************************************************************)
(* C17: a heading template goes through these stages in this order.  Its   *)
(* body is executed against the state before the heading with the font     *)
(* scale multiplied by 1.6 - 0.1 * level and strong set, whatever strong   *)
(* was, and with no break inserted yet; when the body has been executed    *)
(* the state is the state before the heading and the heading has still     *)
(* inserted no break; when the heading has ended the state is still the    *)
(* state before it and the heading has inserted exactly one paragraph      *)
(* break, the last item of the content.                                    *)
(***************************************************************************)
C17_Scaled(before, after, level) ==
    after.num * before.den * 10 = before.num * after.den * (16 - level)

\* The places after the start of the heading where the content holds a
\* paragraph break inserted by a heading nested depth deep.
C17_Breaks(depth) ==
    {i \in (step.mark + 1)..Len(ctx.out) :
        ctx.out[i] = Event("parbreak", "heading", depth)}

C17_HeadingOrder ==
    (step.op \in {"enter", "restore", "leave"} /\ step.kind = "heading") =>
        /\ step.op = "enter" =>
              /\ Top.snapshot = step.before
              /\ ctx.state.font.strong
              /\ C17_Scaled(step.before.font.scale, ctx.state.font.scale,
                            step.level)
              /\ [ctx.state EXCEPT
                     !.font.scale = step.before.font.scale,
                     !.font.strong = step.before.font.strong] = step.before
              /\ Len(ctx.out) = step.mark
        /\ step.op = "restore" =>
              /\ ctx.state = step.before
              /\ C17_Breaks(Len(todo)) = {}
        /\ step.op = "leave" =>
              /\ ctx.state = step.before
              /\ C17_Breaks(Len(todo) + 1) = {Len(ctx.out)}

\* A heading of level 3 has ended that was executed with strong off and
\* whose body inserted a break of its own.
C17_Witness ==
    /\ step.op = "leave" /\ step.kind = "heading" /\ step.level = 3
    /\ ~ctx.state.font.strong
    /\ Len(ctx.out) = step.mark + 2
    /\ ctx.out[Len(ctx.out)] = Event("parbreak", "heading", Len(todo) + 1)

(***************************************************************************)
(* C21: inside the body of a strong, emph or heading template, at whatever *)
(* depth, the state is the state the body started in with the flag of      *)
(* every strong and emph executed without a body so far in that body       *)
(* negated once per execution, so that such a toggle stays in effect for   *)
(* the rest of the body, through the templates nested after it; and when a *)
(* template with a body has ended, the outermost one included, the state   *)
(* is the state before the template.                                       *)
(***************************************************************************)
\* The state the body of an open template started in.
C21_Start(f) ==
    IF f.kind = "heading"
    THEN [f.before EXCEPT
             !.font.scale = Linear(@.num * (16 - f.level), @.den * 10),
             !.font.strong = TRUE]
    ELSE C16_Flipped(f.before, f.kind)

\* The state the body of the i-th open template has reached: the live
\* state, or the state the template nested in it was entered in.
C21_Now(i) == IF i = Len(todo) THEN ctx.state ELSE todo[i + 1].before

C21_ScopedToggles ==
    /\ \A i \in 2..Len(todo) :
          todo[i].pc = "body" =>
              C21_Now(i) =
                  [C21_Start(todo[i]) EXCEPT
                      !.font.strong = (@ # todo[i].flips.strong),
                      !.font.emph = (@ # todo[i].flips.emph)]
    /\ step.op = "leave" => ctx.state = step.before

\* An outermost strong template has ended in whose body a heading was
\* executed and an emph without a body was still in effect at the end.
C21_Witness ==
    /\ step.op = "leave" /\ step.kind = "strong" /\ Len(todo) = 1
    /\ step.flips.emph
    /\ \E i \in DOMAIN ctx.out : ctx.out[i] = Event("parbreak", "heading", 3)
    /\ ~ctx.state.font.emph
    /\ ctx.state = step.before

(***************************************************************************)
(* C22: a raw template leaves the state as it was when the template began, *)
(* and adds to the content exactly the text, once, set in the families of  *)
(* that state with monospace put first, between two paragraph breaks when  *)
(* the block flag is set and alone when it is not.                         *)
(***************************************************************************)
C22_Text ==
    [kind |-> "text", by |-> "raw", depth |-> 0, text |-> step.text,
     families |-> [step.before.font.families EXCEPT
                      !.list = <<Monospace>> \o @]]

C22_RawOrder ==
    (step.op = "exec" /\ step.kind = "raw") =>
        /\ ctx.state = step.before
        /\ SubSeq(ctx.out, step.mark + 1, Len(ctx.out)) =
              IF step.block
              THEN <<Event("parbreak", "raw", 0), C22_Text,
                     Event("parbreak", "raw", 0)>>
              ELSE <<C22_Text>>

\* A block-level raw template has been executed while emph was on.
C22_Witness ==
    /\ step.op = "exec" /\ step.kind = "raw"
    /\ step.block /\ step.text = "fn"
    /\ ctx.state.font.emph
    /\ Len(ctx.out) = step.mark + 3
    /\ ctx.out[step.mark + 2].families.list[1] = Monospace

(***************************************************************************)
(* flatten_tree on its own: called on one spanned value, a tree, a value   *)
(* of another tag, or a table that holds such values and tables under      *)
(* numeric and string keys, nested up to three deep.  The record of the    *)
(* last call holds the value it was called on (pre).                       *)
(***************************************************************************)
FlatTrees == {<<"h">>, <<"p", "q">>}

FlatLeaves == {Tree(tree) : tree \in FlatTrees} \cup {Str("hi")}

FlatNumKeys == {1, 3}

\* The tables with entries from the values S under any of the numeric
\* keys and any of the string keys K.
FlatTables(S, K) ==
    {[nums |-> [k \in DOMAIN f |-> NumEntry(k, f[k])],
      strs |-> [i \in DOMAIN o |->
                   [key |-> o[i], entry |-> StrEntry(o[i], g[i])]]] :
        f \in UNION {[N -> S] : N \in SUBSET FlatNumKeys},
        <<o, g>> \in UNION {{<<o, g>> : g \in [DOMAIN o -> S]} :
                       o \in {<<>>} \cup {<<key>> : key \in K}}}

FlatInner == FlatTables(FlatLeaves, {"a"})

FlatOuter ==
    FlatTables(FlatLeaves \cup {TableV(t) : t \in FlatInner}, {})

\* An outer table as the only entry of a table, under a string key.
FlatDeep ==
    {[nums |-> <<>>,
      strs |-> <<[key |-> "b", entry |-> StrEntry("b", TableV(t))]>>] :
        t \in {u \in FlatOuter : DOMAIN u.nums = FlatNumKeys}}

FlatValues ==
    {NoneV, Bool(TRUE), Func(1), Tree(<<>>)} \cup FlatLeaves
      \cup {TableV(t) : t \in FlatInner \cup FlatOuter \cup FlatDeep}

FlatCall(op, value, res) ==
    [op |-> op, T |-> "", key |-> "", val |-> res, pre |-> value,
     f0 |-> diags]

FlatInit ==
    /\ table = EmptyTable
    /\ diags = <<>>
    /\ iter = NoIter
    /\ \E value \in FlatValues :
          ret = FlatCall("new", Spanned(value, CallSpan), None)
    /\ args = <<>>
    /\ given = {}
    /\ Parked

FlattenTree ==
    /\ ret.op = "new"
    /\ ret' = FlatCall("flatten_tree", ret.pre, Some(flatten_tree(ret.pre)))
    /\ UNCHANGED <<table, diags, iter, args, given, fmt>>

FlatNext == FlattenTree

SpecFlat == FlatInit /\ [][FlatNext]_vars

(***************************************************************************)
(* C23: flatten_tree of a tree value is that tree; of a value that is      *)
(* neither a tree nor a table, the empty tree; of a table, the trees found *)
(* in its entries, numeric keys first in increasing order and then the     *)
(* string keys in insertion order, where an entry that is a tree gives     *)
(* itself, an entry that is a table gives what its own entries give in the *)
(* same way, however deeply nested, and an entry of another tag gives      *)
(* nothing.                                                                *)
(***************************************************************************)
\* The values of the entries of a table in iteration order.
C23_Entries(t) ==
    LET ks == SortedSeq(DOMAIN t.nums)
    IN [i \in 1..Len(ks) |-> t.nums[ks[i]].val]
          \o [i \in 1..Len(t.strs) |-> t.strs[i].entry.val]

RECURSIVE C23_Join(_)
\* The concatenation of a sequence of trees.
C23_Join(trees) ==
    IF trees = <<>> THEN <<>>
    ELSE C23_Join(SubSeq(trees, 1, Len(trees) - 1)) \o trees[Len(trees)]

\* What a value gives when it is a tree or of another tag.
C23_Own(sv) == IF sv.v.tag = "Tree" THEN sv.v.v ELSE <<>>

\* What a value gives whose tables hold no tables, tables of the first
\* kind only, and tables of the first two kinds only.
C23_Flat1(sv) ==
    IF sv.v.tag = "Table"
    THEN LET es == C23_Entries(sv.v.v)
         IN C23_Join([i \in DOMAIN es |-> C23_Own(es[i])])
    ELSE C23_Own(sv)

C23_Flat2(sv) ==
    IF sv.v.tag = "Table"
    THEN LET es == C23_Entries(sv.v.v)
         IN C23_Join([i \in DOMAIN es |-> C23_Flat1(es[i])])
    ELSE C23_Own(sv)

C23_Flat3(sv) ==
    IF sv.v.tag = "Table"
    THEN LET es == C23_Entries(sv.v.v)
         IN C23_Join([i \in DOMAIN es |-> C23_Flat2(es[i])])
    ELSE C23_Own(sv)

C23_FlattenTree ==
    ret.op = "flatten_tree" =>
        /\ ret.val.some
        /\ ret.pre.v.tag = "Tree" => ret.val.v = ret.pre.v.v
        /\ ret.pre.v.tag \notin {"Tree", "Table"} => ret.val.v = <<>>
        /\ ret.pre.v.tag = "Table" => ret.val.v = C23_Flat3(ret.pre)

\* flatten_tree has been called on a table whose only entry is a table that
\* holds, under 1, a table of two trees and a string and, under 3, a tree.
C23_Witness ==
    /\ ret.op = "flatten_tree"
    /\ ret.pre.v.tag = "Table"
    /\ Len(ret.pre.v.v.strs) = 1
    /\ ret.pre.v.v.strs[1].key = "b"
    /\ ret.val.v = <<"p", "q", "h", "h">>

(***************************************************************************)
(* C24: on the same table and for the same target type, expect returns a   *)
(* value exactly when take does, and then the same value, converted from   *)
(* the entry under the same key, the lowest numeric key whose entry        *)
(* converts; the two leave the entries above that key and the string-keyed *)
(* entries alike, and when neither returns a value take removes nothing.   *)
(***************************************************************************)
\* The numeric key whose entry the operation with outcome o removed last.
C24_KeyOf(pre, o) ==
    CHOOSE k \in DOMAIN pre.nums \ DOMAIN o.table.nums :
        \A j \in DOMAIN pre.nums \ DOMAIN o.table.nums : j <= k

C24_Agree(T, pre, t, e) ==
    /\ e.val = t.val
    /\ e.val.some =>
          LET k == Least(NumMatches(T, pre))
          IN /\ NumMatches(T, pre) # {}
             /\ C24_KeyOf(pre, t) = k
             /\ C24_KeyOf(pre, e) = k
             /\ e.val = try_from_value(T, pre.nums[k].val).res
             /\ \A j \in DOMAIN pre.nums :
                   j > k => /\ j \in DOMAIN t.table.nums
                            /\ j \in DOMAIN e.table.nums
                            /\ t.table.nums[j] = e.table.nums[j]
    /\ ~e.val.some => NumMatches(T, pre) = {} /\ t.table = pre
    /\ e.table.strs = t.table.strs

C24_TakeExpectAgree ==
    /\ ret.op = "expect" =>
          C24_Agree(ret.T, ret.pre, take(ret.T, ret.pre),
                    Out(table, ret.val, NewDiags))
    /\ ret.op = "take" =>
          C24_Agree(ret.T, ret.pre, Out(table, ret.val, <<>>),
                    expect(ret.T, "body", CallSpan, ret.pre))

\* An expect returned a value after it removed and reported an entry with
\* a lower key, which take would have left in the table.
C24_Witness ==
    /\ ret.op = "expect" /\ ret.val.some
    /\ Len(NewDiags) = 1
    /\ \E j \in DOMAIN ret.pre.nums :
          /\ j < Least(NumMatches(ret.T, ret.pre))
          /\ j \notin DOMAIN table.nums
          /\ j \in DOMAIN take(ret.T, ret.pre).table.nums

(***************************************************************************)
(* The take_all_* sequences on their own: a caller that starts a sequence *)
(* on a table, polls it and drops it, and that does not stop polling a     *)
(* sequence it neither has exhausted nor drops.  The table holds up to two *)
(* entries in one of its key spaces, the string keys in either order.      *)
(***************************************************************************)
PollKeys == {1, 3}

PollTables ==
    {t \in AllTables :
        /\ DOMAIN t.nums \subseteq PollKeys
        /\ DOMAIN t.nums = {} \/ t.strs = <<>>}

PollInit ==
    /\ table \in PollTables
    /\ diags = <<>>
    /\ iter = NoIter
    /\ ret = [op |-> "new", T |-> "", key |-> "", val |-> None, pre |-> table,
              f0 |-> <<>>]
    /\ args = <<>>
    /\ given = {}
    /\ Parked

PollStart(kind, T) == TakeAll(kind, T) /\ UNCHANGED aside

PollNext == IterNext /\ UNCHANGED aside

PollDrop == IterDrop /\ UNCHANGED aside

PollStep ==
    \/ \E T \in ArgTypes :
          \E kind \in {"take_all_num", "take_all_num_vals", "take_all_str"} :
              PollStart(kind, T)
    \/ PollNext
    \/ PollDrop

SpecPoll == PollInit /\ [][PollStep]_vars /\ WF_vars(PollNext)

(***************************************************************************)
(* C25: a take_all_num, take_all_num_vals or take_all_str sequence started *)
(* on a table with n entries in its key space yields at most n items; the  *)
(* entries its polls have looked at and stepped over, which its cursor     *)
(* counts, are the first entries left in the key space, none of them       *)
(* converts, and together with the items yielded they never number more    *)
(* than n, so that no entry is looked at twice; once a poll has returned   *)
(* nothing the cursor stands at the end, and another poll returns nothing, *)
(* removes nothing and leaves the cursor; and a sequence that is polled on *)
(* is exhausted in the end.                                                *)
(***************************************************************************)
\* The key space of a sequence of the given kind in a table.
C25_Space(kind, t) == IF kind = "take_all_str" THEN strs(t) ELSE nums(t)

C25_Bounded ==
    ~Idle =>
        LET now == C25_Space(iter.kind, table)
            n == Len(C25_Space(iter.kind, iter.start))
        IN /\ Len(iter.out) <= n
           /\ Len(now) + Len(iter.out) = n
           /\ iter.skip + Len(iter.out) <= n
           /\ iter.skip <= Len(now)
           /\ \A i \in 1..iter.skip :
                 /\ ~Converts(iter.T, now[i][2])
                 /\ \E j \in 1..n :
                       C25_Space(iter.kind, iter.start)[j] = now[i]
           /\ iter.done =>
                 /\ iter.skip = Len(now)
                 /\ ~IterPoll.val.some
                 /\ IterPoll.table = table
                 /\ IterPoll.skip = iter.skip

C25_Exhausts == ~Idle ~> (iter.done \/ Idle)

C25_TerminatesExhausted == []C25_Bounded /\ C25_Exhausts

\* A poll of a take_all_str sequence has returned nothing after the
\* sequence yielded an item and stepped over an entry that is still there.
C25_Witness ==
    /\ iter.kind = "take_all_str" /\ iter.done
    /\ ret.op = "next" /\ ~ret.val.some
    /\ Len(iter.out) = 1
    /\ iter.skip = 1
    /\ Len(table.strs) = 1

====
